---- MODULE Spec2Model ----
(***************************************************************************)
(* Model of src/trunk/src/or/routerlist.c: the list of known routers       *)
(* (routerlist), the merge of router descriptors into it, the removal of   *)
(* old routers, the running-routers update, and the choice of nodes and    *)
(* of directory servers.                                                   *)
(*                                                                         *)
(* C strings are sequences of one-character strings.  A pointer to a       *)
(* routerinfo_t that lives in routerlist->routers is the position of that  *)
(* routerinfo in the list (1-based; the C index plus one), and the NULL    *)
(* pointer is 0.                                                           *)
(***************************************************************************)
EXTENDS Integers, Sequences, FiniteSets, TLC

VARIABLES
  routerlist,        \* the global routerlist: NULL, or the routerlist_t
  options_ORPort,    \* options.ORPort != 0: this process is itself a router
  has_fetched_directory, \* the flag of main.c: 1 once a directory is fetched
  assert_failed,     \* a tor_assert has failed (the process has aborted)
  last               \* the last call made: its name, return value and log line

vars == <<routerlist, options_ORPort, has_fetched_directory, assert_failed, last>>

(***************************************************************************)
(* Bounds of the model.                                                    *)
(***************************************************************************)
MaxKey == 2
MaxTime == 2

(***************************************************************************)
(* Program constants.                                                      *)
(***************************************************************************)
DIGEST_LEN == 20
HEX_DIGEST_LEN == 2 * DIGEST_LEN
ROUTER_MAX_AGE == 86400

NULL == [null |-> TRUE]

Min(S) == CHOOSE x \in S : \A y \in S : x <= y
Range(s) == {s[i] : i \in DOMAIN s}

(***************************************************************************)
(* C library: characters and strings.                                      *)
(***************************************************************************)
tolower(c) ==
  CASE c = "A" -> "a" [] c = "B" -> "b" [] c = "C" -> "c" [] c = "D" -> "d"
    [] c = "E" -> "e" [] c = "F" -> "f" [] c = "H" -> "h" [] OTHER -> c

isspace(c) == c \in {" ", "\t", "\n"}

\* 0 iff the two strings are equal up to the case of their letters.
strcasecmp(s, t) ==
  IF Len(s) = Len(t) /\ \A i \in 1..Len(s) : tolower(s[i]) = tolower(t[i])
  THEN 0 ELSE 1

HexChars == <<"0", "1", "2", "3", "4", "5", "6", "7", "8", "9",
              "a", "b", "c", "d", "e", "f">>

HexValue == [c \in Range(HexChars) |-> (CHOOSE v \in 1..16 : HexChars[v] = c) - 1]

\* The value of a hexadecimal digit, -1 for any other character.
hex_decode_digit(c) ==
  IF tolower(c) \in DOMAIN HexValue THEN HexValue[tolower(c)] ELSE -1

\* base16_decode(dest, DIGEST_LEN, src, HEX_DIGEST_LEN): ret 0 and the bytes,
\* or ret -1 when a character of src is no hexadecimal digit.
base16_decode(src) ==
  IF \A i \in 1..Len(src) : hex_decode_digit(src[i]) >= 0
  THEN [ret |-> 0,
        dest |-> [i \in 1..(Len(src) \div 2) |->
                    16 * hex_decode_digit(src[2 * i - 1])
                       + hex_decode_digit(src[2 * i])]]
  ELSE [ret |-> -1, dest |-> <<>>]

\* base16_encode of a digest, in lower or upper case letters.
base16_encode(digest, upper) ==
  LET Ch(v) == IF upper /\ v > 9 THEN <<"A", "B", "C", "D", "E", "F">>[v - 9]
               ELSE HexChars[v + 1]
  IN  [i \in 1..(2 * Len(digest)) |->
         IF i % 2 = 1 THEN Ch(digest[(i + 1) \div 2] \div 16)
         ELSE Ch(digest[i \div 2] % 16)]

(***************************************************************************)
(* Crypto: identity keys are numbers; the digest of key k is DIGEST_LEN    *)
(* bytes, different for different keys.                                    *)
(***************************************************************************)
crypto_pk_cmp_keys(a, b) == IF a = b THEN 0 ELSE 1

crypto_pk_get_digest(k) == [i \in 1..DIGEST_LEN |-> 160 + k]

(***************************************************************************)
(* routerinfo_t, with the fields this file reads or writes.                *)
(***************************************************************************)
routerinfo(nickname, identity_pkey, published_on, dir_port, is_running, is_trusted_dir, address, addr) ==
  [nickname |-> nickname,
   identity_pkey |-> identity_pkey,
   identity_digest |-> crypto_pk_get_digest(identity_pkey),
   published_on |-> published_on,
   dir_port |-> dir_port,
   is_running |-> is_running,
   is_trusted_dir |-> is_trusted_dir,
   address |-> address,
   addr |-> addr,
   exit_policy |-> <<>>]

\* routerlist_t
routerlist_t(routers, published_on, running_routers_updated_on) ==
  [routers |-> routers,
   software_versions |-> <<>>,
   published_on |-> published_on,
   running_routers_updated_on |-> running_routers_updated_on]

(***************************************************************************)
(* smartlist_t: a list of pointers.                                        *)
(***************************************************************************)
\* smartlist_del: the last element takes the place of the idx-th.
smartlist_del(sl, idx) ==
  IF idx = Len(sl) THEN SubSeq(sl, 1, Len(sl) - 1)
  ELSE [i \in 1..(Len(sl) - 1) |-> IF i = idx THEN sl[Len(sl)] ELSE sl[i]]

\* smartlist_del_keeporder: the elements after the idx-th move down by one.
smartlist_del_keeporder(sl, idx) ==
  [i \in 1..(Len(sl) - 1) |-> IF i < idx THEN sl[i] ELSE sl[i + 1]]

\* smartlist_subtract: every element of sl2 is removed from sl1.
smartlist_subtract(sl1, sl2) ==
  SelectSeq(sl1, LAMBDA e : e \notin Range(sl2))

\* smartlist_choose: the elements smartlist_choose may return; {0} (NULL) for
\* an empty list.
smartlist_choose(sl) == IF Len(sl) = 0 THEN {0} ELSE Range(sl)

(***************************************************************************)
(* router_add_to_routerlist (lines 402-451).                               *)
(***************************************************************************)
\* The first position whose nickname is that of `router`, 0 if there is none:
\* the loop returns at the first such position, whatever the branch.
FirstWithNickname(routers, router) ==
  LET hits == {i \in 1..Len(routers) :
                 strcasecmp(router.nickname, routers[i].nickname) = 0}
  IN  IF hits = {} THEN 0 ELSE Min(hits)

\* "Replacing entry": what is stored in place of r.
C2_ReplaceEntry_NoTrust(r, router) ==
  [router EXCEPT
     !.addr = IF strcasecmp(r.address, router.address) = 0 THEN r.addr ELSE @]

\* ReplaceEntry taking the address of r whatever the hostnames.
C22_ReplaceEntry_KeepAddr(r, router) ==
  [router EXCEPT
     !.is_trusted_dir = IF r.is_trusted_dir THEN TRUE ELSE @,
     !.addr = r.addr]

ReplaceEntry(r, router) ==
  [router EXCEPT
     !.is_trusted_dir = IF r.is_trusted_dir THEN TRUE ELSE @,
     !.addr = IF strcasecmp(r.address, router.address) = 0 THEN r.addr ELSE @]

\* "Skipping old entry": what becomes of r.
C7_SkipOldEntry_KeepRunning(r, router) ==
  [r EXCEPT !.is_trusted_dir = IF router.is_trusted_dir THEN TRUE ELSE @]

SkipOldEntry(r, router) ==
  [r EXCEPT
     !.is_trusted_dir = IF router.is_trusted_dir THEN TRUE ELSE @,
     !.is_running = router.is_running]

\* The body of the loop at position i, where the nicknames are equal.
C8_MergeWithEntry_TwoKeys(routers, i, router) ==
  LET r == routers[i] IN
  IF crypto_pk_cmp_keys(router.identity_pkey, r.identity_pkey) = 0
  THEN IF router.published_on > r.published_on
       THEN [routers |-> [routers EXCEPT ![i] = ReplaceEntry(r, router)],
             ret |-> 0, log |-> "Replacing entry"]
       ELSE [routers |-> [routers EXCEPT ![i] = SkipOldEntry(r, router)],
             ret |-> -1, log |-> "Skipping old entry"]
  ELSE [routers |-> Append(routers, router),
        ret |-> 0, log |-> "Identity key mismatch"]

C9_MergeWithEntry_NoReturn(routers, i, router) ==
  LET r == routers[i] IN
  IF crypto_pk_cmp_keys(router.identity_pkey, r.identity_pkey) = 0
  THEN IF router.published_on > r.published_on
       THEN [routers |-> [routers EXCEPT ![i] = ReplaceEntry(r, router)],
             ret |-> 0, log |-> "Replacing entry"]
       ELSE [routers |->
               Append([routers EXCEPT ![i] = SkipOldEntry(r, router)], router),
             ret |-> 0, log |-> "Skipping old entry"]
  ELSE [routers |-> routers, ret |-> -1, log |-> "Identity key mismatch"]

MergeWithEntry(routers, i, router) ==
  LET r == routers[i] IN
  IF crypto_pk_cmp_keys(router.identity_pkey, r.identity_pkey) = 0
  THEN IF router.published_on > r.published_on
       THEN [routers |-> [routers EXCEPT ![i] = ReplaceEntry(r, router)],
             ret |-> 0, log |-> "Replacing entry"]
       ELSE [routers |-> [routers EXCEPT ![i] = SkipOldEntry(r, router)],
             ret |-> -1, log |-> "Skipping old entry"]
  ELSE [routers |-> routers, ret |-> -1, log |-> "Identity key mismatch"]

router_add_to_routerlist(routers, router) ==
  LET i == FirstWithNickname(routers, router) IN
  IF i # 0 THEN MergeWithEntry(routers, i, router)
  ELSE [routers |-> Append(routers, router), ret |-> 0, log |-> "added"]

(***************************************************************************)
(* routerlist_remove_old_routers (lines 459-479).                          *)
(***************************************************************************)
\* The loop from position i on: after smartlist_del(routers, i--) and ++i the
\* same position, which now holds the former last element, is looked at again.
RECURSIVE C10_remove_old_loop_NoRecheck(_, _, _)
C10_remove_old_loop_NoRecheck(routers, i, cutoff) ==
  IF i > Len(routers) THEN routers
  ELSE IF routers[i].published_on < cutoff /\ routers[i].dir_port = 0
       THEN C10_remove_old_loop_NoRecheck(smartlist_del(routers, i), i + 1, cutoff)
       ELSE C10_remove_old_loop_NoRecheck(routers, i + 1, cutoff)

RECURSIVE remove_old_loop(_, _, _)
remove_old_loop(routers, i, cutoff) ==
  IF i > Len(routers) THEN routers
  ELSE IF routers[i].published_on < cutoff /\ routers[i].dir_port = 0
       THEN remove_old_loop(smartlist_del(routers, i), i, cutoff)
       ELSE remove_old_loop(routers, i + 1, cutoff)

\* `now` is time(NULL).
routerlist_remove_old_routers(rl, now) ==
  IF rl = NULL THEN rl
  ELSE [rl EXCEPT !.routers = remove_old_loop(@, 1, now - ROUTER_MAX_AGE)]

(***************************************************************************)
(* Names of routers: nicknames and hexadecimal key digests                 *)
(* (lines 231-260).                                                        *)
(***************************************************************************)
\* s[0] in C: the first character, or the terminating NUL ("") of an empty
\* string.
FirstChar(s) == IF Len(s) = 0 THEN "" ELSE s[1]

router_hex_digest_matches(router, hexdigest) ==
  LET hex == IF FirstChar(hexdigest) = "$" THEN Tail(hexdigest) ELSE hexdigest
      decoded == base16_decode(hex)
  IN  IF Len(hex) # HEX_DIGEST_LEN \/ decoded.ret < 0
      THEN FALSE
      ELSE decoded.dest = router.identity_digest

router_nickname_matches(router, nickname) ==
  IF FirstChar(nickname) # "$" /\ strcasecmp(router.nickname, nickname) = 0
  THEN TRUE
  ELSE router_hex_digest_matches(router, nickname)

(***************************************************************************)
(* Lookups in the routerlist (lines 262-324).  rl is the global            *)
(* routerlist; the result is the position of the router, 0 for NULL.       *)
(***************************************************************************)
router_get_by_digest(rl, digest) ==
  LET hits == {i \in 1..Len(rl.routers) : rl.routers[i].identity_digest = digest}
  IN  IF hits = {} THEN 0 ELSE Min(hits)

router_get_by_hexdigest(rl, hexdigest) ==
  LET hex == IF FirstChar(hexdigest) = "$" THEN Tail(hexdigest) ELSE hexdigest
      decoded == base16_decode(hex)
  IN  IF rl = NULL THEN 0
      ELSE IF Len(hex) # HEX_DIGEST_LEN \/ decoded.ret < 0 THEN 0
      ELSE router_get_by_digest(rl, decoded.dest)

router_get_by_nickname(rl, nickname) ==
  IF rl = NULL THEN 0
  ELSE IF FirstChar(nickname) = "$" THEN router_get_by_hexdigest(rl, nickname)
  ELSE
    LET decoded == base16_decode(nickname)
        maybedigest == Len(nickname) = HEX_DIGEST_LEN /\ decoded.ret = 0
        hits == {i \in 1..Len(rl.routers) :
                   \/ strcasecmp(rl.routers[i].nickname, nickname) = 0
                   \/ maybedigest /\ decoded.dest = rl.routers[i].identity_digest}
    IN  IF hits = {} THEN 0 ELSE Min(hits)

(***************************************************************************)
(* add_nickname_list_to_smartlist (lines 128-155): the names of `list`,    *)
(* separated by commas and white space, are looked up one after the other  *)
(* and the routers found running are added to sl.  The name is copied      *)
(* whole into nick[].                                                      *)
(***************************************************************************)
IsSeparator(c) == isspace(c) \/ c = ","

\* while(isspace(*list) || *list==',') list++
RECURSIVE SkipSeparators(_)
SkipSeparators(s) ==
  IF Len(s) > 0 /\ IsSeparator(s[1]) THEN SkipSeparators(Tail(s)) ELSE s

\* end - start: the length of the name that starts the string.
NameLength(s) ==
  LET seps == {i \in 1..Len(s) : IsSeparator(s[i])}
  IN  IF seps = {} THEN Len(s) ELSE Min(seps) - 1

RECURSIVE nickname_list_loop(_, _, _)
nickname_list_loop(rl, sl, start) ==
  IF Len(start) = 0 THEN sl
  ELSE LET n == NameLength(start)
           nick == SubSeq(start, 1, n)
           router == router_get_by_nickname(rl, nick)
       IN  nickname_list_loop(
             rl,
             IF router # 0 /\ rl.routers[router].is_running
             THEN Append(sl, router) ELSE sl,
             SkipSeparators(SubSeq(start, n + 1, Len(start))))

add_nickname_list_to_smartlist(rl, sl, list) ==
  nickname_list_loop(rl, sl, SkipSeparators(list))

(***************************************************************************)
(* router_add_running_routers_to_smartlist (lines 160-175).  connected is  *)
(* the set of identity digests connection_get_by_identity_digest finds an  *)
(* OR connection for.                                                      *)
(***************************************************************************)
router_add_running_routers_to_smartlist(rl, sl, ORPort, connected) ==
  IF rl = NULL THEN sl
  ELSE sl \o SelectSeq([i \in 1..Len(rl.routers) |-> i],
                       LAMBDA i : /\ rl.routers[i].is_running
                                  /\ \/ ~ORPort
                                     \/ rl.routers[i].identity_digest \in connected)

(***************************************************************************)
(* router_choose_random_node (lines 182-212): the set of routers it may    *)
(* return, {0} when it returns NULL.  A smartlist argument is NullList or  *)
(* SmartList(list).                                                        *)
(***************************************************************************)
NullList == [null |-> TRUE, list |-> <<>>]
SmartList(list) == [null |-> FALSE, list |-> list]

SubtractExcluded(sl, excludednodes, excludedsmartlist) ==
  LET rest == smartlist_subtract(sl, excludednodes)
  IN  IF excludedsmartlist.null THEN rest
      ELSE smartlist_subtract(rest, excludedsmartlist.list)

C1_choose_random_node_FallbackAll(rl, preferred, excluded, excludedsmartlist, ORPort, connected) ==
  LET excludednodes == add_nickname_list_to_smartlist(rl, <<>>, excluded)
      first == SubtractExcluded(
                 add_nickname_list_to_smartlist(rl, <<>>, preferred),
                 excludednodes, excludedsmartlist)
      second == router_add_running_routers_to_smartlist(rl, <<>>, ORPort,
                                                        connected)
  IN  IF Len(first) # 0 THEN smartlist_choose(first)
      ELSE smartlist_choose(second)

\* router_choose_random_node without the second list.
C12_choose_random_node_NoFallback(rl, preferred, excluded, excludedsmartlist, ORPort, connected) ==
  LET excludednodes == add_nickname_list_to_smartlist(rl, <<>>, excluded)
      first == SubtractExcluded(
                 add_nickname_list_to_smartlist(rl, <<>>, preferred),
                 excludednodes, excludedsmartlist)
  IN  smartlist_choose(first)

\* router_choose_random_node choosing among both lists at once.
C13_choose_random_node_BothLists(rl, preferred, excluded, excludedsmartlist, ORPort, connected) ==
  LET excludednodes == add_nickname_list_to_smartlist(rl, <<>>, excluded)
      first == SubtractExcluded(
                 add_nickname_list_to_smartlist(rl, <<>>, preferred),
                 excludednodes, excludedsmartlist)
      second == SubtractExcluded(
                  router_add_running_routers_to_smartlist(rl, <<>>, ORPort,
                                                          connected),
                  excludednodes, excludedsmartlist)
  IN  smartlist_choose(first \o second)

router_choose_random_node(rl, preferred, excluded, excludedsmartlist, ORPort, connected) ==
  LET excludednodes == add_nickname_list_to_smartlist(rl, <<>>, excluded)
      first == SubtractExcluded(
                 add_nickname_list_to_smartlist(rl, <<>>, preferred),
                 excludednodes, excludedsmartlist)
      second == SubtractExcluded(
                  router_add_running_routers_to_smartlist(rl, <<>>, ORPort,
                                                          connected),
                  excludednodes, excludedsmartlist)
  IN  IF Len(first) # 0 THEN smartlist_choose(first)
      ELSE smartlist_choose(second)

(***************************************************************************)
(* routerlist_update_from_runningrouters (lines 743-777).                  *)
(* running_routers_t: published_on and the list of names running_routers.  *)
(***************************************************************************)
\* The inner loop: the first name that router_nickname_matches accepts, as it
\* stands in the list, decides; a name that starts with '!' sets is_running
\* to 0, any other name to 1.
UpdateRunning(router, names) ==
  LET hits == {j \in 1..Len(names) : router_nickname_matches(router, names[j])}
  IN  IF hits = {} THEN router
      ELSE [router EXCEPT !.is_running = FirstChar(names[Min(hits)]) # "!"]

C6_update_from_runningrouters_SameTime(list, rr) ==
  IF list = NULL THEN list
  ELSE IF list.published_on >= rr.published_on THEN list
  ELSE IF list.running_routers_updated_on > rr.published_on THEN list
  ELSE [list EXCEPT
          !.routers = [i \in 1..Len(@) |-> UpdateRunning(@[i], rr.running_routers)],
          !.running_routers_updated_on = rr.published_on]

routerlist_update_from_runningrouters(list, rr) ==
  IF list = NULL THEN list
  ELSE IF list.published_on >= rr.published_on THEN list
  ELSE IF list.running_routers_updated_on >= rr.published_on THEN list
  ELSE [list EXCEPT
          !.routers = [i \in 1..Len(@) |-> UpdateRunning(@[i], rr.running_routers)],
          !.running_routers_updated_on = rr.published_on]

(***************************************************************************)
(* router_mark_as_down (lines 386-394) and                                 *)
(* routerlist_clear_trusted_directories (lines 510-515).                   *)
(***************************************************************************)
router_mark_as_down(rl, digest) ==
  LET router == router_get_by_digest(rl, digest)
  IN  IF router = 0 THEN rl
      ELSE [rl EXCEPT !.routers[router].is_running = FALSE]

routerlist_clear_trusted_directories(rl) ==
  IF rl = NULL THEN rl
  ELSE [rl EXCEPT !.routers =
          [i \in 1..Len(@) |-> [@[i] EXCEPT !.is_trusted_dir = FALSE]]]

(***************************************************************************)
(* router_resolve and router_resolve_routerlist (lines 590-639).  `lookup` *)
(* is what tor_lookup_hostname answers for each hostname: its return value *)
(* and the address in network order.  `me` is router_get_my_routerinfo(),  *)
(* NULL for a client.                                                      *)
(***************************************************************************)
\* ntohl where the host keeps the low byte first: the four bytes reversed.
ntohl(x) ==
  ((x % 256) * 16777216) + (((x \div 256) % 256) * 65536)
    + (((x \div 65536) % 256) * 256) + ((x \div 16777216) % 256)

router_resolve(router, answer) ==
  IF answer.ret # 0 \/ answer.addr = 0
  THEN [ret |-> -1, router |-> router]
  ELSE [ret |-> 0, router |-> [router EXCEPT !.addr = ntohl(answer.addr)]]

\* router_is_me: the router has the identity digest of this router.
router_is_me(router, me) ==
  me # NULL /\ router.identity_digest = me.identity_digest

\* resolve_loop keeping the records of this router.
RECURSIVE C21_resolve_loop_KeepMe(_, _, _, _)
C21_resolve_loop_KeepMe(routers, i, me, lookup) ==
  IF i > Len(routers) THEN routers
  ELSE IF routers[i].addr # 0
       THEN C21_resolve_loop_KeepMe(routers, i + 1, me, lookup)
  ELSE LET res == router_resolve(routers[i], lookup[routers[i].address])
       IN  IF res.ret # 0
           THEN C21_resolve_loop_KeepMe(
                  smartlist_del_keeporder(routers, i), i, me, lookup)
           ELSE C21_resolve_loop_KeepMe(
                  [routers EXCEPT ![i] = res.router], i + 1, me, lookup)

\* resolve_loop going on to the next position after a removal.
RECURSIVE C20_resolve_loop_SkipAfterRemove(_, _, _, _)
C20_resolve_loop_SkipAfterRemove(routers, i, me, lookup) ==
  IF i > Len(routers) THEN routers
  ELSE IF router_is_me(routers[i], me)
       THEN C20_resolve_loop_SkipAfterRemove(
              smartlist_del_keeporder(routers, i), i + 1, me, lookup)
  ELSE IF routers[i].addr # 0
       THEN C20_resolve_loop_SkipAfterRemove(routers, i + 1, me, lookup)
  ELSE LET res == router_resolve(routers[i], lookup[routers[i].address])
       IN  IF res.ret # 0
           THEN C20_resolve_loop_SkipAfterRemove(
                  smartlist_del_keeporder(routers, i), i + 1, me, lookup)
           ELSE C20_resolve_loop_SkipAfterRemove(
                  [routers EXCEPT ![i] = res.router], i + 1, me, lookup)

\* The loop from position i on; after smartlist_del_keeporder(rl->routers, i--)
\* the same position is looked at again.
RECURSIVE resolve_loop(_, _, _, _)
resolve_loop(routers, i, me, lookup) ==
  IF i > Len(routers) THEN routers
  ELSE IF router_is_me(routers[i], me)
       THEN resolve_loop(smartlist_del_keeporder(routers, i), i, me, lookup)
  ELSE IF routers[i].addr # 0
       THEN resolve_loop(routers, i + 1, me, lookup)
  ELSE LET res == router_resolve(routers[i], lookup[routers[i].address])
       IN  IF res.ret # 0
           THEN resolve_loop(smartlist_del_keeporder(routers, i), i, me, lookup)
           ELSE resolve_loop([routers EXCEPT ![i] = res.router], i + 1, me, lookup)

\* The number of calls of router_resolve the loop makes from position i on.
RECURSIVE resolve_calls(_, _, _, _)
resolve_calls(routers, i, me, lookup) ==
  IF i > Len(routers) THEN 0
  ELSE IF router_is_me(routers[i], me)
       THEN resolve_calls(smartlist_del_keeporder(routers, i), i, me, lookup)
  ELSE IF routers[i].addr # 0
       THEN resolve_calls(routers, i + 1, me, lookup)
  ELSE LET res == router_resolve(routers[i], lookup[routers[i].address])
       IN  1 + (IF res.ret # 0
                THEN resolve_calls(smartlist_del_keeporder(routers, i), i, me,
                                   lookup)
                ELSE resolve_calls([routers EXCEPT ![i] = res.router], i + 1,
                                   me, lookup))

router_resolve_routerlist(rl, me, lookup) ==
  IF me # NULL
  THEN [rl EXCEPT !.routers = resolve_loop(<<me>> \o @, 2, me, lookup)]
  ELSE [rl EXCEPT !.routers = resolve_loop(@, 1, me, lookup)]

(***************************************************************************)
(* router_load_routerlist_from_string, _from_file and _from_directory      *)
(* (lines 488-587).  `parsed` is what the parser makes of the string: an   *)
(* error, or a new routerlist.  `file` is what read_file_to_str returns.   *)
(***************************************************************************)
\* SMARTLIST_FOREACH(new_list->routers, routerinfo_t *, r,
\*                   router_add_to_routerlist(r))
RECURSIVE AddEach(_, _)
AddEach(routers, new_routers) ==
  IF Len(new_routers) = 0 THEN routers
  ELSE AddEach(router_add_to_routerlist(routers, Head(new_routers)).routers,
               Tail(new_routers))

\* if (r->dir_port) r->is_trusted_dir = 1
TrustDirectories(routers) ==
  [i \in 1..Len(routers) |->
     IF routers[i].dir_port # 0 THEN [routers[i] EXCEPT !.is_trusted_dir = TRUE]
     ELSE routers[i]]

router_load_routerlist_from_string(rl, parsed, trusted, me, lookup) ==
  IF parsed.error
  THEN [ret |-> -1, routerlist |-> rl, log |-> "Error parsing router file"]
  ELSE
    LET new_routers == IF trusted THEN TrustDirectories(parsed.routers)
                       ELSE parsed.routers
        new_list == [routerlist_t(new_routers, parsed.published_on,
                                  parsed.running_routers_updated_on)
                       EXCEPT !.software_versions = parsed.software_versions]
        list == IF rl # NULL
                THEN [rl EXCEPT !.routers = AddEach(@, new_routers)]
                ELSE new_list
    IN  [ret |-> 0, routerlist |-> router_resolve_routerlist(list, me, lookup),
         log |-> ""]

router_load_routerlist_from_file(rl, file, trusted, me, lookup) ==
  IF file.unreadable
  THEN [ret |-> -1, routerlist |-> rl, log |-> "Failed to load routerfile"]
  ELSE LET res == router_load_routerlist_from_string(rl, file.parsed, trusted,
                                                     me, lookup)
       IN  IF res.ret < 0
           THEN [res EXCEPT !.log = "The routerfile itself was corrupt"]
           ELSE res

router_load_routerlist_from_directory(rl, parsed, me, lookup) ==
  IF parsed.error
  THEN [ret |-> -1, routerlist |-> rl, log |-> "Couldn't parse directory"]
  ELSE
    LET new_list == [routerlist_t(parsed.routers, parsed.published_on,
                                  parsed.running_routers_updated_on)
                       EXCEPT !.software_versions = parsed.software_versions]
        list == IF rl # NULL
                THEN [rl EXCEPT !.routers = AddEach(@, parsed.routers),
                                !.published_on = new_list.published_on,
                                !.software_versions = new_list.software_versions]
                ELSE new_list
    IN  [ret |-> 0, routerlist |-> router_resolve_routerlist(list, me, lookup),
         log |-> ""]

(***************************************************************************)
(* router_pick_directory_server, its _impl and all_directory_servers_down  *)
(* (lines 40-122).  `failed` says that a tor_assert failed.                *)
(***************************************************************************)
\* The trusted directory servers of the list, all of them or the running ones.
TrustedDirs(rl, running_only) ==
  SelectSeq([i \in 1..Len(rl.routers) |-> i],
            LAMBDA i : /\ rl.routers[i].is_trusted_dir
                       /\ running_only => rl.routers[i].is_running)

NoDirPort(rl, sl) == \E i \in Range(sl) : ~(rl.routers[i].dir_port > 0)

router_pick_directory_server_impl(rl) ==
  IF rl = NULL
  THEN [failed |-> FALSE, routerlist |-> rl, choices |-> {0}]
  ELSE
    LET running == TrustedDirs(rl, TRUE)
        trusted == TrustedDirs(rl, FALSE)
        all_up == [rl EXCEPT !.routers =
                     [i \in 1..Len(@) |->
                        IF @[i].is_trusted_dir
                        THEN [@[i] EXCEPT !.is_running = TRUE] ELSE @[i]]]
    IN  IF NoDirPort(rl, running)
        THEN [failed |-> TRUE, routerlist |-> rl, choices |-> {0}]
        ELSE IF Len(running) # 0
        THEN [failed |-> FALSE, routerlist |-> rl,
              choices |-> smartlist_choose(running)]
        ELSE IF NoDirPort(rl, trusted)
        THEN [failed |-> TRUE, routerlist |-> rl, choices |-> {0}]
        ELSE [failed |-> FALSE, routerlist |-> all_up,
              choices |-> smartlist_choose(trusted)]

\* The outcomes of router_pick_directory_server: the routerlist it leaves and
\* the router it returns, whether it has set has_fetched_directory to 0, how
\* often it has loaded the routers and how often it has called
\* router_pick_directory_server_impl.  The routers are reloaded from options.RouterFile;
\* the default directory servers are loaded in the same way.
\* router_pick_directory_server returning NULL after the reload.
C19_pick_directory_server_NoRetry(rl, file, me, lookup) ==
  LET first == router_pick_directory_server_impl(rl)
      reloaded == router_load_routerlist_from_file(
                    routerlist_clear_trusted_directories(rl), file, TRUE,
                    me, lookup)
  IN  IF first.failed \/ first.choices # {0}
      THEN {[failed |-> first.failed, routerlist |-> first.routerlist,
             choice |-> c, log |-> "", reset |-> FALSE, loads |-> 0,
             attempts |-> 1] : c \in first.choices}
      ELSE {[failed |-> FALSE, routerlist |-> reloaded.routerlist,
             choice |-> 0, log |-> reloaded.log,
             reset |-> TRUE, loads |-> 1, attempts |-> 1]}

router_pick_directory_server(rl, file, me, lookup) ==
  LET first == router_pick_directory_server_impl(rl)
      reloaded == router_load_routerlist_from_file(
                    routerlist_clear_trusted_directories(rl), file, TRUE,
                    me, lookup)
      second == router_pick_directory_server_impl(reloaded.routerlist)
      Outcomes(impl, log, reset, loads, attempts) ==
        {[failed |-> impl.failed, routerlist |-> impl.routerlist,
          choice |-> c, log |-> log,
          reset |-> reset, loads |-> loads, attempts |-> attempts] :
           c \in impl.choices}
  IN  IF first.failed \/ first.choices # {0} THEN Outcomes(first, "", FALSE, 0, 1)
      ELSE IF reloaded.ret < 0
      THEN {[failed |-> FALSE, routerlist |-> reloaded.routerlist,
             choice |-> 0, log |-> reloaded.log,
             reset |-> TRUE, loads |-> 1, attempts |-> 1]}
      ELSE Outcomes(second, "No dirservers known. Reloading and trying again.",
                    TRUE, 1, 2)

all_directory_servers_down(rl) ==
  IF rl = NULL THEN [failed |-> FALSE, ret |-> 1]
  ELSE LET running == TrustedDirs(rl, TRUE)
       IN  IF Len(running) = 0 THEN [failed |-> FALSE, ret |-> 1]
           ELSE IF ~(rl.routers[Head(running)].dir_port > 0)
           THEN [failed |-> TRUE, ret |-> 0]
           ELSE [failed |-> FALSE, ret |-> 0]

(***************************************************************************)
(* router_compare_addr_to_exit_policy (lines 648-706).  An exit policy is  *)
(* the sequence of its rules, the empty sequence for the NULL pointer; a   *)
(* rule has policy_type, addr, msk, prt_min and prt_max.  addr = 0 is an   *)
(* unknown address.                                                        *)
(***************************************************************************)
ADDR_POLICY_ACCEPTED == 0
ADDR_POLICY_REJECTED == -1
ADDR_POLICY_UNKNOWN == 1

\* A 32-bit address in a policy question or rule is written as its four
\* octets, first octet first; a & b is taken octet by octet.
ZeroAddr == <<0, 0, 0, 0>>
RECURSIVE BitAnd(_, _)
BitAnd(a, b) ==
  IF a = 0 \/ b = 0 THEN 0
  ELSE ((a % 2) * (b % 2)) + 2 * BitAnd(a \div 2, b \div 2)
AddrAnd(a, b) == [i \in DOMAIN a |-> BitAnd(a[i], b[i])]

\* RuleMatch without the possible match of an unknown address.
C11_RuleMatch_NoMaybe(addr, port, tmpe) ==
  IF addr = ZeroAddr
  THEN IF port >= tmpe.prt_min /\ port <= tmpe.prt_max /\ tmpe.msk = ZeroAddr
       THEN "match" ELSE "none"
  ELSE IF AddrAnd(addr, tmpe.msk) = AddrAnd(tmpe.addr, tmpe.msk)
       THEN IF port >= tmpe.prt_min /\ port <= tmpe.prt_max THEN "match"
            ELSE IF port = 0 THEN "maybe" ELSE "none"
       ELSE "none"

\* RuleMatch taking port 0 for a possible match of an unknown address only
\* when the rule's mask is 0.
C17_RuleMatch_WildcardNeedsAnyAddr(addr, port, tmpe) ==
  IF addr = ZeroAddr
  THEN IF port >= tmpe.prt_min /\ port <= tmpe.prt_max
       THEN IF tmpe.msk = ZeroAddr THEN "match" ELSE "maybe"
       ELSE IF port = 0 /\ tmpe.msk = ZeroAddr THEN "maybe" ELSE "none"
  ELSE IF AddrAnd(addr, tmpe.msk) = AddrAnd(tmpe.addr, tmpe.msk)
       THEN IF port >= tmpe.prt_min /\ port <= tmpe.prt_max THEN "match"
            ELSE IF port = 0 THEN "maybe" ELSE "none"
       ELSE "none"

\* What one rule makes of addr:port: "match", "maybe" or "none".
RuleMatch(addr, port, tmpe) ==
  IF addr = ZeroAddr
  THEN IF port >= tmpe.prt_min /\ port <= tmpe.prt_max
       THEN IF tmpe.msk = ZeroAddr THEN "match" ELSE "maybe"
       ELSE IF port = 0 THEN "maybe" ELSE "none"
  ELSE IF AddrAnd(addr, tmpe.msk) = AddrAnd(tmpe.addr, tmpe.msk)
       THEN IF port >= tmpe.prt_min /\ port <= tmpe.prt_max THEN "match"
            ELSE IF port = 0 THEN "maybe" ELSE "none"
       ELSE "none"

\* compare_loop answering at a match without a look at the maybe flags.
RECURSIVE C23_compare_loop_IgnoreMaybe(_, _, _, _, _, _)
C23_compare_loop_IgnoreMaybe(addr, port, policy, k, maybe_reject, maybe_accept) ==
  IF k > Len(policy) THEN ADDR_POLICY_ACCEPTED
  ELSE IF RuleMatch(addr, port, policy[k]) = "match"
       THEN IF policy[k].policy_type = "accept" THEN ADDR_POLICY_ACCEPTED
            ELSE ADDR_POLICY_REJECTED
       ELSE C23_compare_loop_IgnoreMaybe(addr, port, policy, k + 1,
                                         maybe_reject, maybe_accept)

\* The loop from the k-th rule on.
RECURSIVE compare_loop(_, _, _, _, _, _)
compare_loop(addr, port, policy, k, maybe_reject, maybe_accept) ==
  IF k > Len(policy)
  THEN IF maybe_reject THEN ADDR_POLICY_UNKNOWN ELSE ADDR_POLICY_ACCEPTED
  ELSE
    LET tmpe == policy[k]
        how == RuleMatch(addr, port, tmpe)
    IN  IF how = "match"
        THEN IF tmpe.policy_type = "accept"
             THEN IF maybe_reject THEN ADDR_POLICY_UNKNOWN
                  ELSE ADDR_POLICY_ACCEPTED
             ELSE IF maybe_accept THEN ADDR_POLICY_UNKNOWN
                  ELSE ADDR_POLICY_REJECTED
        ELSE compare_loop(
               addr, port, policy, k + 1,
               maybe_reject \/ (how = "maybe" /\ tmpe.policy_type = "reject"),
               maybe_accept \/ (how = "maybe" /\ tmpe.policy_type # "reject"))

router_compare_addr_to_exit_policy(addr, port, policy) ==
  compare_loop(addr, port, policy, 1, FALSE, FALSE)

\* router_exit_policy_all_routers_reject asking every router, running or not.
C15_all_routers_reject_AnyRouter(rl, addr, port) ==
  IF \E i \in 1..Len(rl.routers) :
       router_compare_addr_to_exit_policy(addr, port, rl.routers[i].exit_policy)
         # ADDR_POLICY_REJECTED
  THEN 0 ELSE 1

\* router_exit_policy_all_routers_reject (lines 710-721)
router_exit_policy_all_routers_reject(rl, addr, port) ==
  IF \E i \in 1..Len(rl.routers) :
       /\ rl.routers[i].is_running
       /\ router_compare_addr_to_exit_policy(addr, port, rl.routers[i].exit_policy)
            # ADDR_POLICY_REJECTED
  THEN 0 ELSE 1

\* router_exit_policy_rejects_all (lines 725-728)
router_exit_policy_rejects_all(router) ==
  router_compare_addr_to_exit_policy(ZeroAddr, 0, router.exit_policy)
    = ADDR_POLICY_REJECTED

(***************************************************************************)
(* Inputs: the router descriptors the parser hands over.  A descriptor     *)
(* comes unresolved (addr = 0) and not trusted; a caller marks it trusted  *)
(* only if it has a directory port.                                        *)
(***************************************************************************)
Keys == 1..MaxKey
Times == 1..MaxTime
Hostname == <<"h">>

Descriptors(nicknames, keys, times, dir_ports, runs) ==
  {routerinfo(n, k, t, d, run, FALSE, Hostname, 0) :
     n \in nicknames, k \in keys, t \in times, d \in dir_ports, run \in runs}

MarkTrusted(ds) ==
  ds \cup {[d EXCEPT !.is_trusted_dir = TRUE] : d \in {x \in ds : x.dir_port > 0}}

MergeNicknames == {<<"a">>, <<"A">>, <<"b">>}
MergeInputs ==
  MarkTrusted(Descriptors(MergeNicknames, Keys, Times, {9030}, BOOLEAN))

\* Three routers, each with its own key, with or without a directory port.
EvictNicknames == <<(<<"a">>), (<<"b">>), (<<"c">>)>>
EvictInputs ==
  UNION {Descriptors({EvictNicknames[k]}, {k}, Times, {0, 9030}, {TRUE}) :
           k \in DOMAIN EvictNicknames}
\* The values of time(NULL): the cutoff runs from before the first publication
\* time to after the last.
Nows == {ROUTER_MAX_AGE + c : c \in 0..(MaxTime + 1)}

\* The names of a running-routers list: nicknames in either case, key digests
\* in hexadecimal after a '$', and each of them negated by a leading '!'.
HexDigest(k, upper) == base16_encode(crypto_pk_get_digest(k), upper)
PlainNames == {<<"a">>, <<"B">>, <<"$">> \o HexDigest(MaxKey, TRUE)}
RunningNames == PlainNames \cup {<<"!">> \o n : n \in PlainNames}
NameLists == {<<>>} \cup {<<n>> : n \in RunningNames}
               \cup {<<n, m>> : n \in RunningNames, m \in RunningNames}
RunningRouters ==
  [published_on : 0..(MaxTime + 1), running_routers : NameLists]

RunningNicknames == {<<"a">>, <<"b">>}
RunningInputs == Descriptors(RunningNicknames, Keys, {1}, {0}, BOOLEAN)

\* Three routers, each with its own key; the first is running or not.
ChooseInputs ==
  UNION {Descriptors({EvictNicknames[k]}, {k}, {1}, {0},
                     IF k = 1 THEN BOOLEAN ELSE {TRUE}) :
           k \in DOMAIN EvictNicknames}

\* Names for a list of nicknames: a nickname, the digest of the first key in
\* hexadecimal, a nickname in the other case, and '$' with the digest of the
\* third key; the lists hold no name, one name, or two names next to each
\* other in this order.
ListNames ==
  <<(<<"a">>), HexDigest(1, FALSE), (<<"B">>), <<"$">> \o HexDigest(3, TRUE)>>
NameSeqs ==
  {<<>>} \cup {<<ListNames[k]>> : k \in DOMAIN ListNames}
         \cup {<<ListNames[k], ListNames[(k % Len(ListNames)) + 1]>> :
                  k \in DOMAIN ListNames}
\* The list as a string: one name is followed by a comma, two names come after
\* a space and are separated by a space, a comma and a space.
ListString(names) ==
  CASE Len(names) = 0 -> <<>>
    [] Len(names) = 1 -> names[1] \o <<",">>
    [] OTHER -> <<" ">> \o names[1] \o <<" ", ",", " ">> \o names[2]

ExcludedLists == {NullList, SmartList(<<1>>), SmartList(<<2, 3>>)}
Connections == {{}, {crypto_pk_get_digest(1), crypto_pk_get_digest(3)}}

\* The descriptors of a string or a directory: a router "a" with any key at
\* the first time or with the last key at any time, with or without a
\* directory port; the latest may be followed by a router "b" with a key of
\* its own that is no directory server.
DirInputs ==
  Descriptors({<<"a">>}, Keys, {1}, {0, 9030}, {TRUE})
    \cup Descriptors({<<"a">>}, {MaxKey}, Times, {0, 9030}, {TRUE})
OtherRouter == routerinfo(<<"b">>, MaxKey + 1, 1, 0, TRUE, FALSE, Hostname, 0)
RouterLists ==
  {<<>>} \cup {<<d>> : d \in DirInputs}
         \cup {<<d, OtherRouter>> : d \in {x \in DirInputs : x.published_on = MaxTime}}
\* What the parser makes of a string or of a directory published at time t.
ParseError ==
  [error |-> TRUE, routers |-> <<>>, software_versions |-> <<>>,
   published_on |-> 0, running_routers_updated_on |-> 0]
\* The recommended versions of the directory published at t; a list of
\* routers that is no directory (t = 0) has none.
Digits == <<"0", "1", "2", "3", "4", "5", "6", "7", "8", "9">>
SoftwareVersions(t) == IF t = 0 THEN <<>> ELSE <<"0", ".", Digits[t + 1]>>
Parsed(t) ==
  {ParseError} \cup
  {[error |-> FALSE, routers |-> routers,
    software_versions |-> SoftwareVersions(t), published_on |-> t,
    running_routers_updated_on |-> t] : routers \in RouterLists}
\* The router file: unreadable, corrupt, or a list of one router.
Files ==
  {[unreadable |-> TRUE, parsed |-> ParseError]} \cup
  {[unreadable |-> FALSE, parsed |-> p] :
     p \in {q \in Parsed(0) : Len(q.routers) <= 1}}
\* tor_lookup_hostname: a failure, or 127.0.0.1.
Lookups ==
  [{Hostname} -> {[ret |-> -1, addr |-> 0], [ret |-> 0, addr |-> 16777343]}]
\* This router's own descriptor.
MyRouterinfo ==
  routerinfo(<<"m">>, 1, MaxTime, 0, TRUE, FALSE, Hostname, ntohl(16777343))
router_get_my_routerinfo(ORPort) == IF ORPort THEN MyRouterinfo ELSE NULL
DirRunningRouters ==
  [published_on : {MaxTime},
   running_routers : {<<>>, <<(<<"a">>)>>, <<(<<"!", "b">>)>>}]

\* Exit policy rules: accept or reject; 1.2.3.4/32, any address, or
\* 128.0.0.0/1; port 80, any port from 0 on, or any port from 1 on.
ExitRule(type, net, ports) ==
  [policy_type |-> type, addr |-> net[1], msk |-> net[2],
   prt_min |-> ports[1], prt_max |-> ports[2]]
Nets ==
  {<<<<1, 2, 3, 4>>, <<255, 255, 255, 255>>>>, <<ZeroAddr, ZeroAddr>>,
   <<<<128, 0, 0, 0>>, <<128, 0, 0, 0>>>>}
PortRanges == {<<80, 80>>, <<0, 65535>>, <<1, 65535>>}
ExitRules ==
  {ExitRule(type, net, ports) :
     type \in {"accept", "reject"}, net \in Nets, ports \in PortRanges}
\* Policies of up to two rules, and of three rules for port 80.
ExitPolicies ==
  {<<>>} \cup {<<r>> : r \in ExitRules}
         \cup {<<r, q>> : r \in ExitRules, q \in ExitRules}
         \cup {<<r, q, p>> : r \in {x \in ExitRules : x.prt_min = 80},
                               q \in {x \in ExitRules : x.prt_min = 80},
                               p \in {x \in ExitRules : x.prt_min = 80}}
\* Targets: an unknown address, 1.2.3.4, 1.2.3.5 and 128.0.0.1; no port,
\* 80, 81 and 443.
TargetAddrs == {ZeroAddr, <<1, 2, 3, 4>>, <<1, 2, 3, 5>>, <<128, 0, 0, 1>>}
TargetPorts == {0, 80, 81, 443}
\* The policy [accept 1.2.3.4/32 port 80, reject 0.0.0.0/0 any port].
ConcretePolicy ==
  <<ExitRule("accept", <<<<1, 2, 3, 4>>, <<255, 255, 255, 255>>>>, <<80, 80>>),
    ExitRule("reject", <<ZeroAddr, ZeroAddr>>, <<0, 65535>>)>>
\* A router with an exit policy.
PolicyInputs ==
  {[d EXCEPT !.exit_policy = policy] :
     d \in Descriptors({<<"a">>}, {1}, {1}, {0}, BOOLEAN), policy \in ExitPolicies}

\* Routers for router_exit_policy_all_routers_reject: three routers, each
\* with its own key, running or not, with a policy that rejects everything,
\* the policy [accept 1.2.3.4/32:80, reject *:*], or no policy.
RejectAll == <<ExitRule("reject", <<ZeroAddr, ZeroAddr>>, <<0, 65535>>)>>
RejectInputs ==
  {[d EXCEPT !.exit_policy = policy] :
     d \in UNION {Descriptors({EvictNicknames[k]}, {k}, {1}, {0}, BOOLEAN) :
                    k \in DOMAIN EvictNicknames},
     policy \in {RejectAll, ConcretePolicy, <<>>}}

\* Routers to resolve: three routers, each with its own key (the first has
\* the key of this router) and with one of two hostnames; the lists a string
\* holds have up to three of them, each router once, in the order of their
\* keys.  The first hostname is not found, is found with the address 0, or
\* is found with the address 127.0.0.1; the other is found or not.
OtherHostname == <<"g">>
Hostnames == {Hostname, OtherHostname}
ResolveInput(k, address) ==
  routerinfo(EvictNicknames[k], k, 1, 0, TRUE, FALSE, address, 0)
ResolveInputs ==
  {ResolveInput(k, address) : k \in DOMAIN EvictNicknames, address \in Hostnames}
ResolveLists ==
  {<<>>} \cup {<<r>> : r \in ResolveInputs}
         \cup {rs \in {<<r, q>> : r \in ResolveInputs, q \in ResolveInputs} :
                 rs[1].identity_pkey < rs[2].identity_pkey}
         \cup {rs \in {<<r, q, p>> : r \in ResolveInputs, q \in ResolveInputs,
                                       p \in ResolveInputs} :
                 /\ rs[1].identity_pkey < rs[2].identity_pkey
                 /\ rs[2].identity_pkey < rs[3].identity_pkey}
ResolveParsed ==
  {[error |-> FALSE, routers |-> routers, software_versions |-> <<>>,
    published_on |-> 0, running_routers_updated_on |-> 0] :
     routers \in ResolveLists}
ResolveLookups ==
  {lookup \in [Hostnames -> {[ret |-> -1, addr |-> 0], [ret |-> 0, addr |-> 0],
                              [ret |-> 0, addr |-> 16777343]}] :
     lookup[OtherHostname].ret = 0 => lookup[OtherHostname].addr # 0}

\* Descriptors that replace one another: a router "a" or "A" with the last
\* key, published at any time from 0 on, with the hostname "h", "H" or "g" and a
\* directory port; and the router "b".  The strings hold one of them or
\* none; "h" and "H" are found at 127.0.0.1, "g" at 127.0.0.2 or not at all.
HostnameUpper == <<"H">>
ReplaceInputs ==
  {[d EXCEPT !.address = address] :
     d \in Descriptors({<<"a">>, <<"A">>}, {MaxKey}, 0..MaxTime, {9030}, {TRUE}),
     address \in {Hostname, HostnameUpper, OtherHostname}}
    \cup {OtherRouter}
ReplaceParsed ==
  {[error |-> FALSE, routers |-> routers, software_versions |-> <<>>,
    published_on |-> 0, running_routers_updated_on |-> 0] :
     routers \in {<<>>} \cup {<<r>> : r \in ReplaceInputs}}
ReplaceLookups ==
  {lookup \in [{Hostname, HostnameUpper, OtherHostname} ->
                 {[ret |-> -1, addr |-> 0], [ret |-> 0, addr |-> 16777343],
                  [ret |-> 0, addr |-> 33554559]}] :
     /\ lookup[Hostname].addr = 16777343
     /\ lookup[HostnameUpper] = lookup[Hostname]
     /\ lookup[OtherHostname].addr # 16777343}

(***************************************************************************)
(* Actions.                                                                *)
(***************************************************************************)
Call(op, ret, log) == [op |-> op, ret |-> ret, log |-> log]

\* The outcome of merging `router` into the routerlist as it is now.
MergeResult(router) == router_add_to_routerlist(routerlist.routers, router)

AddToRouterlist(router) ==
  /\ routerlist # NULL
  /\ ~assert_failed
  /\ LET res == MergeResult(router) IN
       /\ routerlist' = [routerlist EXCEPT !.routers = res.routers]
       /\ last' = Call("router_add_to_routerlist", res.ret, res.log)
  /\ UNCHANGED <<options_ORPort, has_fetched_directory, assert_failed>>

RemoveOldRouters(now) ==
  /\ ~assert_failed
  /\ routerlist' = routerlist_remove_old_routers(routerlist, now)
  /\ last' = Call("routerlist_remove_old_routers", 0,
                  IF routerlist' = routerlist THEN ""
                  ELSE "Forgetting obsolete routerinfo")
  /\ UNCHANGED <<options_ORPort, has_fetched_directory, assert_failed>>

UpdateFromRunningRouters(rr) ==
  /\ ~assert_failed
  /\ routerlist' = routerlist_update_from_runningrouters(routerlist, rr)
  /\ last' = Call("routerlist_update_from_runningrouters", 0, "")
  /\ UNCHANGED <<options_ORPort, has_fetched_directory, assert_failed>>

\* The routers router_choose_random_node may return now.
Choices(preferred, excluded, excludedsmartlist, connected) ==
  router_choose_random_node(routerlist, ListString(preferred),
                            ListString(excluded), excludedsmartlist,
                            options_ORPort, connected)

ChooseRandomNode(preferred, excluded, excludedsmartlist, connected) ==
  /\ ~assert_failed
  /\ \E choice \in Choices(preferred, excluded, excludedsmartlist, connected) :
       last' = Call("router_choose_random_node", choice,
                    IF choice = 0 THEN "No available nodes" ELSE "")
  /\ UNCHANGED <<routerlist, options_ORPort, has_fetched_directory, assert_failed>>

Me == router_get_my_routerinfo(options_ORPort)

LoadFromString(parsed, trusted, lookup) ==
  /\ ~assert_failed
  /\ LET res == router_load_routerlist_from_string(routerlist, parsed, trusted,
                                                   Me, lookup)
     IN  /\ routerlist' = res.routerlist
         /\ last' = Call("router_load_routerlist_from_string", res.ret, res.log)
  /\ UNCHANGED <<options_ORPort, has_fetched_directory, assert_failed>>

LoadFromDirectory(parsed, lookup) ==
  /\ ~assert_failed
  /\ LET res == router_load_routerlist_from_directory(routerlist, parsed, Me,
                                                      lookup)
     IN  /\ routerlist' = res.routerlist
         /\ last' = Call("router_load_routerlist_from_directory", res.ret,
                         res.log)
  /\ UNCHANGED <<options_ORPort, has_fetched_directory, assert_failed>>

\* A failed tor_assert ends the program.
PickDirectoryServer(file, lookup) ==
  /\ ~assert_failed
  /\ \E res \in router_pick_directory_server(routerlist, file, Me, lookup) :
       /\ assert_failed' = res.failed
       /\ routerlist' = res.routerlist
       /\ has_fetched_directory' = IF res.reset THEN 0 ELSE has_fetched_directory
       /\ last' = Call("router_pick_directory_server", res.choice,
                       IF res.failed THEN "tor_assert" ELSE res.log)
  /\ UNCHANGED options_ORPort

\* main.c sets the flag when a directory has been fetched.
DirectoryFetched ==
  /\ ~assert_failed
  /\ has_fetched_directory = 0
  /\ has_fetched_directory' = 1
  /\ last' = Call("directory_has_arrived", 0, "")
  /\ UNCHANGED <<routerlist, options_ORPort, assert_failed>>

AllDirectoryServersDown ==
  /\ ~assert_failed
  /\ LET res == all_directory_servers_down(routerlist)
     IN  /\ assert_failed' = res.failed
         /\ last' = Call("all_directory_servers_down", res.ret,
                         IF res.failed THEN "tor_assert" ELSE "")
  /\ UNCHANGED <<routerlist, options_ORPort, has_fetched_directory>>

\* Called for a router of the routerlist, which exists then.
MarkAsDown(digest) ==
  /\ ~assert_failed
  /\ routerlist # NULL
  /\ routerlist' = router_mark_as_down(routerlist, digest)
  /\ last' = Call("router_mark_as_down", 0,
                  IF routerlist' = routerlist THEN "" ELSE "Marking as down")
  /\ UNCHANGED <<options_ORPort, has_fetched_directory, assert_failed>>

\* The routerlist is read by the caller, which has one.
CompareAddrToExitPolicy(i, addr, port) ==
  /\ ~assert_failed
  /\ routerlist # NULL
  /\ i \in 1..Len(routerlist.routers)
  /\ last' = Call("router_compare_addr_to_exit_policy",
                  router_compare_addr_to_exit_policy(
                    addr, port, routerlist.routers[i].exit_policy), "")
  /\ UNCHANGED <<routerlist, options_ORPort, has_fetched_directory, assert_failed>>

AllRoutersReject(addr, port) ==
  /\ ~assert_failed
  /\ routerlist # NULL
  /\ last' = Call("router_exit_policy_all_routers_reject",
                  router_exit_policy_all_routers_reject(routerlist, addr, port),
                  "")
  /\ UNCHANGED <<routerlist, options_ORPort, has_fetched_directory, assert_failed>>

RejectsAll(i) ==
  /\ ~assert_failed
  /\ routerlist # NULL
  /\ i \in 1..Len(routerlist.routers)
  /\ last' = Call("router_exit_policy_rejects_all",
                  IF router_exit_policy_rejects_all(routerlist.routers[i])
                  THEN 1 ELSE 0, "")
  /\ UNCHANGED <<routerlist, options_ORPort, has_fetched_directory, assert_failed>>

(***************************************************************************)
(* SpecMerge: merges into a routerlist that starts empty.                  *)
(***************************************************************************)
InitMerge ==
  /\ routerlist = routerlist_t(<<>>, 0, 0)
  /\ options_ORPort = FALSE
  /\ has_fetched_directory = 0
  /\ assert_failed = FALSE
  /\ last = Call("none", 0, "")

NextMerge == \E router \in MergeInputs : AddToRouterlist(router)

SpecMerge == InitMerge /\ [][NextMerge]_vars

Routers == routerlist.routers
SameNickname(a, b) == strcasecmp(a.nickname, b.nickname) = 0
SameKey(a, b) == crypto_pk_cmp_keys(a.identity_pkey, b.identity_pkey) = 0
Merged == last.op = "router_add_to_routerlist"

(***************************************************************************)
(* C2: once the record of a nickname and identity key is a trusted         *)
(* directory, no merge leaves the record of that nickname and key not      *)
(* trusted: every step of SpecMerge is a merge, and after it every         *)
(* position that held a trusted record holds a trusted record of the same  *)
(* nickname and key.                                                       *)
(***************************************************************************)
C2_StillTrusted ==
  \A i \in 1..Len(Routers) :
    Routers[i].is_trusted_dir =>
      /\ i <= Len(Routers')
      /\ Routers'[i].is_trusted_dir
      /\ SameNickname(Routers'[i], Routers[i])
      /\ SameKey(Routers'[i], Routers[i])

C2_TrustIsSticky == [][C2_StillTrusted]_vars

\* A merge has replaced an entry, and a trusted record is about to be replaced
\* by a newer descriptor that is not trusted, and to stay trusted.
C2_Witness ==
  /\ Merged /\ last.log = "Replacing entry"
  /\ \E router \in MergeInputs : \E i \in 1..Len(Routers) :
       /\ Routers[i].is_trusted_dir /\ ~router.is_trusted_dir
       /\ SameNickname(router, Routers[i]) /\ SameKey(router, Routers[i])
       /\ router.published_on > Routers[i].published_on
       /\ MergeResult(router).routers[i].is_trusted_dir
       /\ MergeResult(router).routers[i].published_on = router.published_on

(***************************************************************************)
(* C4: the routerlist holds at most one record per identity digest.        *)
(***************************************************************************)
C4_OneRecordPerIdentity ==
  \A i, j \in 1..Len(Routers) :
    Routers[i].identity_digest = Routers[j].identity_digest => i = j

(***************************************************************************)
(* C7: merging a descriptor with the nickname and identity key of an       *)
(* existing record, and not published later than it, returns -1, keeps the *)
(* list and every field of the record except is_running and                *)
(* is_trusted_dir, and sets the record's is_running to the descriptor's.   *)
(***************************************************************************)
C7_SkipOldSetsRunning ==
  \A router \in MergeInputs : \A i \in 1..Len(Routers) :
    LET r == Routers[i]
        res == MergeResult(router)
    IN  (SameNickname(router, r) /\ SameKey(router, r)
           /\ router.published_on <= r.published_on)
        => /\ res.ret = -1
           /\ Len(res.routers) = Len(Routers)
           /\ \A j \in 1..Len(Routers) : j # i => res.routers[j] = Routers[j]
           /\ [res.routers[i] EXCEPT !.is_running = r.is_running,
                                     !.is_trusted_dir = r.is_trusted_dir] = r
           /\ res.routers[i].is_running = router.is_running

\* An old entry has been skipped, and an older descriptor that is not running
\* is about to flip a running record, whose body differs from its own.
C7_Witness ==
  /\ Merged /\ last.log = "Skipping old entry" /\ last.ret = -1
  /\ \E router \in MergeInputs : \E i \in 1..Len(Routers) :
       /\ SameNickname(router, Routers[i]) /\ SameKey(router, Routers[i])
       /\ router.published_on < Routers[i].published_on
       /\ router.nickname # Routers[i].nickname
       /\ Routers[i].is_running /\ ~router.is_running
       /\ ~MergeResult(router).routers[i].is_running

(***************************************************************************)
(* C8: merging a descriptor whose nickname is, up to case, that of an      *)
(* existing record with another identity key returns -1 and leaves the     *)
(* list as it is: the same records, in the same order, with every field.   *)
(***************************************************************************)
C8_KeyMismatchRejected ==
  \A router \in MergeInputs :
    LET res == MergeResult(router) IN
    (\E i \in 1..Len(Routers) :
        SameNickname(router, Routers[i]) /\ ~SameKey(router, Routers[i]))
    => /\ res.ret = -1
       /\ res.routers = Routers

\* A descriptor has been rejected for its key, by a list of two records, and a
\* nickname that differs in case from the record's is about to be rejected.
C8_Witness ==
  /\ Merged /\ last.log = "Identity key mismatch" /\ last.ret = -1
  /\ Len(Routers) = 2
  /\ \E router \in MergeInputs : \E i \in 1..Len(Routers) :
       /\ SameNickname(router, Routers[i]) /\ ~SameKey(router, Routers[i])
       /\ router.nickname # Routers[i].nickname
       /\ router.published_on > Routers[i].published_on

(***************************************************************************)
(* C9 as stated: after merging the same descriptor twice the routerlist    *)
(* is as after the first merge, and holds exactly one record of the        *)
(* descriptor's identity.                                                  *)
(***************************************************************************)
MergeTwice(once, router) == router_add_to_routerlist(once.routers, router)

NextEvict ==
  \/ \E router \in EvictInputs : AddToRouterlist(router)
  \/ \E now \in Nows : RemoveOldRouters(now)

SpecEvict == InitMerge /\ [][NextEvict]_vars

TooOld(r, cutoff) == r.published_on < cutoff /\ r.dir_port = 0
Count(sl, r) == Cardinality({i \in 1..Len(sl) : sl[i] = r})

(***************************************************************************)
(* C10: routerlist_remove_old_routers removes exactly the records with     *)
(* published_on < now - ROUTER_MAX_AGE and dir_port = 0: none of them is   *)
(* left, wherever it stood, and every other record is still in the list,   *)
(* as often as before and with every field.                                *)
(***************************************************************************)
C10_RemovesExactlyTooOld ==
  \A now \in Nows :
    LET cutoff == now - ROUTER_MAX_AGE
        after == routerlist_remove_old_routers(routerlist, now).routers
    IN  /\ \A i \in 1..Len(after) : ~TooOld(after[i], cutoff)
        /\ \A i \in 1..Len(Routers) :
             ~TooOld(Routers[i], cutoff) =>
               Count(after, Routers[i]) = Count(Routers, Routers[i])
        /\ \A i \in 1..Len(after) : Count(Routers, after[i]) > 0

\* The old routers have been looked for, and in a list of a directory server
\* published long ago followed by two routers that are too old, the last of
\* the list among them, only the directory server is about to stay.
C10_Witness ==
  /\ last.op = "routerlist_remove_old_routers"
  /\ Len(Routers) = 3
  /\ \E now \in Nows :
       /\ Routers[1].dir_port > 0
       /\ Routers[1].published_on < now - ROUTER_MAX_AGE
       /\ TooOld(Routers[2], now - ROUTER_MAX_AGE)
       /\ TooOld(Routers[3], now - ROUTER_MAX_AGE)
       /\ routerlist_remove_old_routers(routerlist, now).routers = <<Routers[1]>>

(***************************************************************************)
(* SpecRunning: a routerlist that starts as an empty directory published   *)
(* at any time, merges into it, and running-routers updates.               *)
(***************************************************************************)
InitRunning ==
  /\ \E t \in 0..MaxTime : routerlist = routerlist_t(<<>>, t, 0)
  /\ options_ORPort = FALSE
  /\ has_fetched_directory = 0
  /\ assert_failed = FALSE
  /\ last = Call("none", 0, "")

NextRunning ==
  \/ \E router \in RunningInputs : AddToRouterlist(router)
  \/ \E rr \in RunningRouters : UpdateFromRunningRouters(rr)

SpecRunning == InitRunning /\ [][NextRunning]_vars

\* The update as the claims see it.
Updated(rr) == routerlist_update_from_runningrouters(routerlist, rr)
Stale(rr) ==
  \/ rr.published_on <= routerlist.published_on
  \/ rr.published_on <= routerlist.running_routers_updated_on
\* The router a name of the list names: the name without its '!'.
Negated(name) == FirstChar(name) = "!"
Names(name, router) ==
  router_nickname_matches(router, IF Negated(name) THEN Tail(name) ELSE name)

(***************************************************************************)
(* C5: in an update that is not stale the first name of the list, in list  *)
(* order, that names a record decides its is_running: a plain name sets it *)
(* to true, a negated name ('!') to false, and a record that no name names *)
(* keeps its is_running.                                                   *)
(***************************************************************************)
C5_FirstNameDecides ==
  \A rr \in RunningRouters :
    ~Stale(rr) =>
      \A i \in 1..Len(Routers) :
        LET names == rr.running_routers
            hits == {j \in 1..Len(names) : Names(names[j], Routers[i])}
        IN  Updated(rr).routers[i].is_running <=>
              (IF hits = {} THEN Routers[i].is_running
               ELSE ~Negated(names[Min(hits)]))

(***************************************************************************)
(* C6: an update takes effect only if its published_on is greater than     *)
(* both the routerlist's published_on and its running_routers_updated_on:  *)
(* a stale update leaves every is_running and running_routers_updated_on   *)
(* as they are, and an update that is applied leaves                       *)
(* running_routers_updated_on equal to its published_on, whether or not    *)
(* an is_running has changed.                                              *)
(***************************************************************************)
C6_StaleUpdateIgnored ==
  \A rr \in RunningRouters :
    LET after == Updated(rr) IN
    /\ Stale(rr) => after = routerlist
    /\ ~Stale(rr) => after.running_routers_updated_on = rr.published_on

\* An update has been applied; an update of the same time is about to be
\* ignored though it names a router that is not running, and a later update
\* that names no router is about to move running_routers_updated_on only.
C6_Witness ==
  /\ last.op = "routerlist_update_from_runningrouters"
  /\ routerlist.running_routers_updated_on > routerlist.published_on
  /\ \E rr \in RunningRouters : \E i \in 1..Len(Routers) :
       /\ rr.published_on = routerlist.running_routers_updated_on
       /\ ~Routers[i].is_running
       /\ rr.running_routers = <<Routers[i].nickname>>
       /\ Updated(rr) = routerlist
  /\ \E rr \in RunningRouters :
       /\ rr.published_on > routerlist.running_routers_updated_on
       /\ rr.running_routers = <<>>
       /\ Updated(rr).routers = Routers
       /\ Updated(rr).running_routers_updated_on = rr.published_on

(***************************************************************************)
(* SpecChoose: a client or a router, merges into a routerlist that starts  *)
(* empty, and choices of a random node.                                    *)
(***************************************************************************)
InitChoose ==
  /\ routerlist = routerlist_t(<<>>, 0, 0)
  /\ options_ORPort \in BOOLEAN
  /\ has_fetched_directory = 0
  /\ assert_failed = FALSE
  /\ last = Call("none", 0, "")

NextChoose ==
  \/ \E router \in ChooseInputs : AddToRouterlist(router)
  \/ \E preferred \in NameSeqs, excluded \in NameSeqs,
        excludedsmartlist \in ExcludedLists,
        connected \in (IF options_ORPort THEN Connections ELSE {{}}) :
       ChooseRandomNode(preferred, excluded, excludedsmartlist, connected)

SpecChoose == InitChoose /\ [][NextChoose]_vars

\* The routers the names of a list resolve to.
ResolvedBy(names) ==
  {router_get_by_nickname(routerlist, names[k]) : k \in 1..Len(names)}
Running == {i \in 1..Len(Routers) : Routers[i].is_running}

(***************************************************************************)
(* C1: whatever the routerlist, the preferred names, the excluded names    *)
(* and the excluded list, the router router_choose_random_node returns, if *)
(* any, is running, is no router a name of the excluded names resolves to, *)
(* and is not in the excluded list.                                        *)
(***************************************************************************)
C1_NeverExcluded ==
  \A preferred \in NameSeqs, excluded \in NameSeqs,
     excludedsmartlist \in ExcludedLists, connected \in Connections :
    \A choice \in Choices(preferred, excluded, excludedsmartlist, connected) :
      choice # 0 =>
        /\ choice \in Running
        /\ choice \notin ResolvedBy(excluded)
        /\ excludedsmartlist.null \/ choice \notin Range(excludedsmartlist.list)

\* The running routers a router has a connection to; all of them for a client.
Usable(connected) ==
  {i \in Running : ~options_ORPort \/ Routers[i].identity_digest \in connected}

\* A node has been chosen among three routers of which two are running; a
\* preferred router is about to be chosen and another preferred one is not,
\* being excluded; a router is about to be chosen for want of a preferred one
\* that is not excluded; and none is about to be chosen when the excluded
\* names are those of the running routers.
C1_Witness ==
  /\ last.op = "router_choose_random_node" /\ last.ret # 0
  /\ Len(Routers) = 3 /\ Cardinality(Running) = 2
  /\ \E preferred \in NameSeqs, excluded \in NameSeqs :
       /\ ResolvedBy(preferred) \cap ResolvedBy(excluded) \cap Running # {}
       /\ (ResolvedBy(preferred) \cap Running) \ ResolvedBy(excluded) # {}
       /\ Choices(preferred, excluded, NullList, {})
            = (ResolvedBy(preferred) \cap Running) \ ResolvedBy(excluded)
  /\ \E preferred \in NameSeqs, excluded \in NameSeqs,
        excludedsmartlist \in ExcludedLists \ {NullList},
        connected \in Connections :
       /\ ResolvedBy(preferred) \cap Running # {}
       /\ ResolvedBy(preferred) \cap Running \subseteq ResolvedBy(excluded)
       /\ Range(excludedsmartlist.list) \cap Usable(connected) # {}
       /\ Choices(preferred, excluded, excludedsmartlist, connected)
            = Usable(connected) \ (ResolvedBy(excluded)
                                     \cup Range(excludedsmartlist.list))
       /\ 0 \notin Choices(preferred, excluded, excludedsmartlist, connected)
  /\ \E preferred \in NameSeqs, excluded \in NameSeqs :
       /\ ResolvedBy(preferred) \cap Running # {}
       /\ ResolvedBy(excluded) = Running
       /\ Choices(preferred, excluded, NullList, {}) = {0}

(***************************************************************************)
(* Spec: a client or a router that starts without a routerlist, loads      *)
(* strings and directories, merges single descriptors, removes old         *)
(* routers, applies running-routers updates, marks routers as down and     *)
(* looks for a directory server.                                           *)
(***************************************************************************)
Init ==
  /\ routerlist = NULL
  /\ options_ORPort \in BOOLEAN
  /\ has_fetched_directory = 0
  /\ assert_failed = FALSE
  /\ last = Call("none", 0, "")

Next ==
  \/ \E parsed \in Parsed(0), trusted \in BOOLEAN, lookup \in Lookups :
       LoadFromString(parsed, trusted, lookup)
  \/ \E parsed \in Parsed(1), lookup \in Lookups :
       LoadFromDirectory(parsed, lookup)
  \/ \E router \in MarkTrusted(DirInputs) : AddToRouterlist(router)
  \/ RemoveOldRouters(ROUTER_MAX_AGE + MaxTime)
  \/ \E rr \in DirRunningRouters : UpdateFromRunningRouters(rr)
  \/ \E k \in Keys : MarkAsDown(crypto_pk_get_digest(k))
  \/ \E file \in Files, lookup \in Lookups : PickDirectoryServer(file, lookup)
  \/ AllDirectoryServersDown

Spec == Init /\ [][Next]_vars

(***************************************************************************)
(* C3: every record of the routerlist that is a trusted directory has a    *)
(* directory port, and no tor_assert(router->dir_port > 0) has failed.     *)
(***************************************************************************)
C3_TrustedHasDirPort ==
  /\ ~assert_failed
  /\ routerlist # NULL =>
       \A i \in 1..Len(Routers) :
         Routers[i].is_trusted_dir => Routers[i].dir_port > 0

\* The routers excluded by the names and by the list.
Excluded(excluded, excludedsmartlist) ==
  ResolvedBy(excluded)
    \cup (IF excludedsmartlist.null THEN {} ELSE Range(excludedsmartlist.list))

(***************************************************************************)
(* C12: when every running router is excluded, router_choose_random_node   *)
(* returns NULL whatever the preferred names; when a running router is not *)
(* excluded and the caller is a client (which needs no connection to the   *)
(* router), it returns a router whatever the preferred names.              *)
(***************************************************************************)
C12_NullIffAllExcluded ==
  \A preferred \in NameSeqs, excluded \in NameSeqs,
     excludedsmartlist \in ExcludedLists,
     connected \in (IF options_ORPort THEN Connections ELSE {{}}) :
    LET choices == Choices(preferred, excluded, excludedsmartlist, connected)
        rest == Running \ Excluded(excluded, excludedsmartlist)
    IN  /\ rest = {} => choices = {0}
        /\ (rest # {} /\ ~options_ORPort) => 0 \notin choices

\* NULL has been returned; two routers are running, both are excluded and one
\* of them is preferred; and with other names a router that is not preferred
\* is about to be returned to a client.
C12_Witness ==
  /\ last.op = "router_choose_random_node" /\ last.ret = 0
  /\ Cardinality(Running) = 2
  /\ ~options_ORPort
  /\ \E preferred \in NameSeqs, excluded \in NameSeqs,
        excludedsmartlist \in ExcludedLists :
       /\ ResolvedBy(preferred) \cap Running # {}
       /\ Running \subseteq Excluded(excluded, excludedsmartlist)
       /\ Choices(preferred, excluded, excludedsmartlist, {}) = {0}
  /\ \E preferred \in NameSeqs, excluded \in NameSeqs,
        excludedsmartlist \in ExcludedLists :
       /\ ResolvedBy(preferred) \cap Running = {}
       /\ Excluded(excluded, excludedsmartlist) \cap Running # {}
       /\ Running \ Excluded(excluded, excludedsmartlist) # {}
       /\ 0 \notin Choices(preferred, excluded, excludedsmartlist, {})

\* The preferred routers that are running and not excluded.
Preferred(preferred, excluded, excludedsmartlist) ==
  (ResolvedBy(preferred) \cap Running) \ Excluded(excluded, excludedsmartlist)

(***************************************************************************)
(* C13: when a preferred router is running and not excluded,               *)
(* router_choose_random_node returns one of the preferred routers that are *)
(* running and not excluded, any of them; only when there is none does it  *)
(* return one of the other running routers.                                *)
(***************************************************************************)
C13_PreferredFirst ==
  \A preferred \in NameSeqs, excluded \in NameSeqs,
     excludedsmartlist \in ExcludedLists,
     connected \in (IF options_ORPort THEN Connections ELSE {{}}) :
    LET choices == Choices(preferred, excluded, excludedsmartlist, connected)
        first == Preferred(preferred, excluded, excludedsmartlist)
        second == Usable(connected) \ Excluded(excluded, excludedsmartlist)
    IN  /\ first # {} => choices = first
        /\ (choices \ first) \ {0} # {} => (first = {} /\ choices = second)

\* A router has been returned; of three running routers one is preferred and
\* not excluded and is about to be the only choice; and when that one is
\* excluded too another router is about to be chosen.
C13_Witness ==
  /\ last.op = "router_choose_random_node" /\ last.ret # 0
  /\ Cardinality(Running) = 3
  /\ \E preferred \in NameSeqs, excluded \in NameSeqs :
       /\ Cardinality(Preferred(preferred, excluded, NullList)) = 1
       /\ Cardinality(Running \ Excluded(excluded, NullList)) > 1
       /\ Choices(preferred, excluded, NullList, {})
            = Preferred(preferred, excluded, NullList)
  /\ \E preferred \in NameSeqs, excluded \in NameSeqs :
       /\ ResolvedBy(preferred) \cap Running # {}
       /\ Preferred(preferred, excluded, NullList) = {}
       /\ ~options_ORPort
       /\ Choices(preferred, excluded, NullList, {})
            = Running \ Excluded(excluded, NullList)
       /\ 0 \notin Choices(preferred, excluded, NullList, {})

(***************************************************************************)
(* SpecPolicy: a routerlist of one router with any exit policy, and        *)
(* questions to that policy.                                               *)
(***************************************************************************)
InitPolicy ==
  /\ \E router \in PolicyInputs : routerlist = routerlist_t(<<router>>, 0, 0)
  /\ options_ORPort = FALSE
  /\ has_fetched_directory = 0
  /\ assert_failed = FALSE
  /\ last = Call("none", 0, "")

NextPolicy ==
  \/ \E addr \in TargetAddrs, port \in TargetPorts :
       CompareAddrToExitPolicy(1, addr, port)
  \/ RejectsAll(1)

SpecPolicy == InitPolicy /\ [][NextPolicy]_vars

\* router_compare_addr_to_exit_policy on the policy of the first router.
Classify(addr, port) ==
  router_compare_addr_to_exit_policy(addr, port, Routers[1].exit_policy)


(***************************************************************************)
(* C11: with the policy [accept 1.2.3.4/32 port 80, reject 0.0.0.0/0 any   *)
(* port] 1.2.3.4:80 is accepted, 1.2.3.4:81 is rejected, port 80 of an     *)
(* unknown address is unknown, and port 443 of an unknown address is       *)
(* rejected.                                                               *)
(***************************************************************************)
C11_ConcreteCases ==
  Routers[1].exit_policy = ConcretePolicy =>
    /\ Classify(<<1, 2, 3, 4>>, 80) = ADDR_POLICY_ACCEPTED
    /\ Classify(<<1, 2, 3, 4>>, 81) = ADDR_POLICY_REJECTED
    /\ Classify(ZeroAddr, 80) = ADDR_POLICY_UNKNOWN
    /\ Classify(ZeroAddr, 443) = ADDR_POLICY_REJECTED

\* The policy of the claim has been asked about port 80 of an unknown address
\* and has answered unknown.
C11_Witness ==
  /\ Routers[1].exit_policy = ConcretePolicy
  /\ last.op = "router_compare_addr_to_exit_policy"
  /\ last.ret = ADDR_POLICY_UNKNOWN
  /\ Classify(ZeroAddr, 80) = ADDR_POLICY_UNKNOWN
  /\ Classify(<<1, 2, 3, 4>>, 80) = ADDR_POLICY_ACCEPTED

\* The trusted directory servers of the routerlist, and the running ones.
Trusted == {i \in 1..Len(Routers) : Routers[i].is_trusted_dir}

(***************************************************************************)
(* C14: when the routerlist holds a trusted directory server and no        *)
(* trusted directory server is running, router_pick_directory_server       *)
(* returns one of the trusted directory servers without a reload, and      *)
(* leaves every trusted directory server running and every other router    *)
(* as it was.                                                              *)
(***************************************************************************)
C14_FallbackReturnsTrusted ==
  (/\ routerlist # NULL /\ ~assert_failed
   /\ Trusted # {} /\ Trusted \cap Running = {}) =>
      \A file \in Files, lookup \in Lookups :
        \A res \in router_pick_directory_server(routerlist, file, Me, lookup) :
          /\ ~res.failed
          /\ res.choice \in Trusted
          /\ res.log = ""
          /\ Len(res.routerlist.routers) = Len(Routers)
          /\ \A i \in 1..Len(Routers) :
               res.routerlist.routers[i]
                 = IF i \in Trusted THEN [Routers[i] EXCEPT !.is_running = TRUE]
                   ELSE Routers[i]

(***************************************************************************)
(* C16: router_exit_policy_rejects_all returns true exactly when the       *)
(* router's exit policy rejects every port other than 0 at every known     *)
(* address.                                                                *)
(***************************************************************************)
C16_RejectsAllIffNoExit ==
  router_exit_policy_rejects_all(Routers[1]) <=>
    \A addr \in TargetAddrs \ {ZeroAddr}, port \in TargetPorts \ {0} :
      Classify(addr, port) = ADDR_POLICY_REJECTED

\* The policy of the first router, the port within the range of a rule, and
\* the policy without its k-th rule.
Policy == Routers[1].exit_policy
InRange(port, tmpe) == port >= tmpe.prt_min /\ port <= tmpe.prt_max
Without(policy, k) == SubSeq(policy, 1, k - 1) \o SubSeq(policy, k + 1, Len(policy))

\* C17 as stated: with an unknown address a rule is a possible match only
\* when its mask is not 0 and the port is in its range, or its mask is 0 and
\* the port is 0.
C17_Original ==
  \A k \in 1..Len(Policy), port \in TargetPorts :
    RuleMatch(ZeroAddr, port, Policy[k]) = "maybe" =>
      \/ Policy[k].msk # ZeroAddr /\ InRange(port, Policy[k])
      \/ Policy[k].msk = ZeroAddr /\ port = 0

(***************************************************************************)
(* C17: with an unknown address a rule is a possible match exactly when    *)
(* the port is in its range and its mask is not 0, or the port is 0 and    *)
(* outside its range, whatever the mask; a rule that is neither a possible *)
(* nor a definite match has no influence: the answer is the same without   *)
(* the rule.                                                               *)
(***************************************************************************)
C17_PossibleMatch ==
  \A k \in 1..Len(Policy), port \in TargetPorts :
    /\ RuleMatch(ZeroAddr, port, Policy[k]) = "maybe" <=>
         \/ InRange(port, Policy[k]) /\ Policy[k].msk # ZeroAddr
         \/ ~InRange(port, Policy[k]) /\ port = 0
    /\ RuleMatch(ZeroAddr, port, Policy[k]) = "none" =>
         router_compare_addr_to_exit_policy(ZeroAddr, port, Without(Policy, k))
           = Classify(ZeroAddr, port)

\* An unknown address has been classified unknown; the first rule of two
\* has a mask and a range without port 0 and is a possible match for port 0;
\* for another port it is no match, and the answer, which is not "accepted",
\* is about to be the same without it.
C17_Witness ==
  /\ last.op = "router_compare_addr_to_exit_policy"
  /\ last.ret = ADDR_POLICY_UNKNOWN
  /\ Len(Policy) = 2
  /\ Policy[1].msk # ZeroAddr /\ ~InRange(0, Policy[1])
  /\ RuleMatch(ZeroAddr, 0, Policy[1]) = "maybe"
  /\ Classify(ZeroAddr, 0) = ADDR_POLICY_UNKNOWN
  /\ \E port \in TargetPorts :
       /\ RuleMatch(ZeroAddr, port, Policy[1]) = "none"
       /\ Classify(ZeroAddr, port) # ADDR_POLICY_ACCEPTED
       /\ router_compare_addr_to_exit_policy(ZeroAddr, port, Without(Policy, 1))
            = Classify(ZeroAddr, port)

(***************************************************************************)
(* SpecReject: merges of routers with exit policies into a routerlist that *)
(* starts empty, and questions to all of them.                             *)
(***************************************************************************)
NextReject ==
  \/ \E router \in RejectInputs : AddToRouterlist(router)
  \/ \E addr \in TargetAddrs, port \in TargetPorts : AllRoutersReject(addr, port)

SpecReject == InitMerge /\ [][NextReject]_vars

\* What the i-th router makes of addr:port.
ClassifiedBy(i, addr, port) ==
  router_compare_addr_to_exit_policy(addr, port, Routers[i].exit_policy)
\* The routerlist without the routers that are not running.
RunningOnly ==
  [routerlist EXCEPT !.routers = SelectSeq(@, LAMBDA router : router.is_running)]

(***************************************************************************)
(* C15: router_exit_policy_all_routers_reject returns 1 exactly when every *)
(* running router's policy rejects the address and port; a running router  *)
(* that accepts it or may accept it makes the result 0; and the routers    *)
(* that are not running make no difference.                                *)
(***************************************************************************)
C15_AllRunningReject ==
  \A addr \in TargetAddrs, port \in TargetPorts :
    LET ret == router_exit_policy_all_routers_reject(routerlist, addr, port)
    IN  /\ ret \in {0, 1}
        /\ ret = 1 <=>
             \A i \in Running : ClassifiedBy(i, addr, port) = ADDR_POLICY_REJECTED
        /\ ret = router_exit_policy_all_routers_reject(RunningOnly, addr, port)

\* 0 has been returned; two routers are running and one is not; for one
\* target a running router answers unknown, the other rejects, and the result
\* is 0; for another target the router that is not running accepts, the
\* running ones reject, and the result is 1.
C15_Witness ==
  /\ last.op = "router_exit_policy_all_routers_reject" /\ last.ret = 0
  /\ Len(Routers) = 3 /\ Cardinality(Running) = 2
  /\ \E addr \in TargetAddrs, port \in TargetPorts :
       /\ \E i \in Running : ClassifiedBy(i, addr, port) = ADDR_POLICY_UNKNOWN
       /\ \E i \in Running : ClassifiedBy(i, addr, port) = ADDR_POLICY_REJECTED
       /\ \A i \in Running : ClassifiedBy(i, addr, port) # ADDR_POLICY_ACCEPTED
       /\ router_exit_policy_all_routers_reject(routerlist, addr, port) = 0
  /\ \E addr \in TargetAddrs, port \in TargetPorts :
       /\ \E i \in 1..Len(Routers) :
            i \notin Running /\ ClassifiedBy(i, addr, port) = ADDR_POLICY_ACCEPTED
       /\ router_exit_policy_all_routers_reject(routerlist, addr, port) = 1

(***************************************************************************)
(* SpecLoad: a client or a router without a routerlist; lists of routers   *)
(* and directories published at any time are loaded in any order.          *)
(***************************************************************************)
NextLoad ==
  \/ \E parsed \in Parsed(0), trusted \in BOOLEAN, lookup \in Lookups :
       LoadFromString(parsed, trusted, lookup)
  \/ \E t \in Times, lookup \in Lookups :
       \E parsed \in Parsed(t) : LoadFromDirectory(parsed, lookup)

SpecLoad == Init /\ [][NextLoad]_vars

(***************************************************************************)
(* C18: a load into an existing routerlist never takes published_on back:  *)
(* a directory published before the routerlist's published_on leaves       *)
(* published_on and software_versions as they were.                        *)
(***************************************************************************)
C18_NewerMetadataKept ==
  [][(routerlist # NULL /\ routerlist' # NULL) =>
       /\ routerlist'.published_on >= routerlist.published_on
       /\ routerlist'.published_on = routerlist.published_on =>
            routerlist'.software_versions = routerlist.software_versions]_vars

(***************************************************************************)
(* SpecPick: a client or a router without a routerlist; lists of routers   *)
(* are loaded, routers are marked as down, a directory is fetched, and a   *)
(* directory server is picked with any router file.                        *)
(***************************************************************************)
NextPick ==
  \/ \E parsed \in Parsed(0), trusted \in BOOLEAN, lookup \in Lookups :
       LoadFromString(parsed, trusted, lookup)
  \/ \E k \in Keys : MarkAsDown(crypto_pk_get_digest(k))
  \/ DirectoryFetched
  \/ \E file \in Files, lookup \in Lookups : PickDirectoryServer(file, lookup)

SpecPick == Init /\ [][NextPick]_vars

\* The first attempt, the reload and the second attempt of a call of
\* router_pick_directory_server now.
FirstAttempt == router_pick_directory_server_impl(routerlist)
Reloaded(file, lookup) ==
  router_load_routerlist_from_file(
    routerlist_clear_trusted_directories(routerlist), file, TRUE, Me, lookup)
SecondAttempt(file, lookup) ==
  router_pick_directory_server_impl(Reloaded(file, lookup).routerlist)

(***************************************************************************)
(* C19: when the first attempt of router_pick_directory_server finds no    *)
(* directory server, has_fetched_directory is set to 0, the routers are    *)
(* loaded once and, if the load succeeds, the attempt is made once more,   *)
(* whose result is the result of the call; NULL is returned only when the  *)
(* load fails or the second attempt finds none.  When the first attempt    *)
(* finds one, nothing is loaded and the flag is left alone.  No call loads *)
(* more than once or makes more than two attempts.                         *)
(***************************************************************************)
C19_ReloadAndRetryOnce ==
  ~assert_failed =>
    \A file \in Files, lookup \in Lookups :
      \A res \in router_pick_directory_server(routerlist, file, Me, lookup) :
        /\ res.loads <= 1 /\ res.attempts <= 2
        /\ IF ~FirstAttempt.failed /\ FirstAttempt.choices = {0}
           THEN /\ res.reset /\ res.loads = 1
                /\ res.attempts = IF Reloaded(file, lookup).ret < 0 THEN 1 ELSE 2
                /\ Reloaded(file, lookup).ret >= 0 =>
                     /\ res.choice \in SecondAttempt(file, lookup).choices
                     /\ res.failed = SecondAttempt(file, lookup).failed
                /\ (~res.failed /\ res.choice = 0) =>
                     \/ Reloaded(file, lookup).ret < 0
                     \/ SecondAttempt(file, lookup).choices = {0}
           ELSE ~res.reset /\ res.loads = 0 /\ res.attempts = 1

\* A call has found no directory server, has reloaded the routers, leaving
\* the flag at 0, and has returned a directory server from its second
\* attempt; a call made now is about to return one without a reload.
C19_Witness ==
  /\ last.op = "router_pick_directory_server" /\ last.ret # 0
  /\ last.log = "No dirservers known. Reloading and trying again."
  /\ has_fetched_directory = 0
  /\ \E file \in Files, lookup \in Lookups :
       \E res \in router_pick_directory_server(routerlist, file, Me, lookup) :
         ~res.reset /\ res.loads = 0 /\ res.choice # 0

(***************************************************************************)
(* SpecResolve: a client or a router without a routerlist; strings with up *)
(* to three routers are loaded, and each load ends with                    *)
(* router_resolve_routerlist; single routers are added unresolved.         *)
(***************************************************************************)
NextResolve ==
  \/ \E parsed \in ResolveParsed, lookup \in ResolveLookups :
       LoadFromString(parsed, FALSE, lookup)
  \/ \E router \in ResolveInputs : AddToRouterlist(router)

SpecResolve == Init /\ [][NextResolve]_vars

\* The routers router_resolve_routerlist finds when the string is loaded now,
\* and the routers it leaves.
Unresolved(parsed) ==
  IF routerlist = NULL THEN parsed.routers
  ELSE AddEach(Routers, parsed.routers)
Resolved(parsed, lookup) ==
  router_load_routerlist_from_string(routerlist, parsed, FALSE, Me, lookup)
    .routerlist.routers
\* The hostname of the router is found, with an address.
Found(router, lookup) ==
  lookup[router.address].ret = 0 /\ lookup[router.address].addr # 0
\* The routers that stay: not this router, and resolved or found.
Survivors(routers, lookup) ==
  SelectSeq(routers, LAMBDA router : /\ ~router_is_me(router, Me)
                                     /\ router.addr # 0 \/ Found(router, lookup))
\* The position after the copy of this router's descriptor.
Start == IF Me # NULL THEN 2 ELSE 1

(***************************************************************************)
(* C20: after router_resolve_routerlist, if this process is a router, its  *)
(* descriptor is the first router of the list and no other router of the   *)
(* list is this router; every router after it has an address; the routers  *)
(* whose hostname was not found are gone, also when they stood next to     *)
(* each other; and the routers that stay are in the order they had.        *)
(***************************************************************************)
C20_ResolvePass ==
  ~assert_failed =>
    \A parsed \in ResolveParsed, lookup \in ResolveLookups :
      LET before == Unresolved(parsed)
          after == Resolved(parsed, lookup)
          stay == Survivors(before, lookup)
      IN  /\ Me # NULL =>
               /\ Len(after) >= 1 /\ after[1] = Me /\ router_is_me(after[1], Me)
               /\ Cardinality({i \in 1..Len(after) : router_is_me(after[i], Me)})
                    = 1
          /\ \A i \in Start..Len(after) :
               ~router_is_me(after[i], Me) /\ after[i].addr # 0
          /\ Len(after) = Len(stay) + Start - 1
          /\ \A i \in 1..Len(stay) :
               after[i + Start - 1]
                 = IF stay[i].addr # 0 THEN stay[i]
                   ELSE [stay[i] EXCEPT !.addr = ntohl(lookup[stay[i].address].addr)]

\* A string has been loaded into the routerlist of a router, whose own
\* descriptor is now in front of one resolved router; a string of three
\* routers is about to be loaded, one of them the router of the list; the
\* two new ones stand next to each other, are not found and go, and the
\* resolved router stays second.
C20_Witness ==
  /\ last.op = "router_load_routerlist_from_string"
  /\ options_ORPort
  /\ routerlist # NULL /\ Len(Routers) = 2 /\ Routers[1] = Me
  /\ \E parsed \in ResolveParsed, lookup \in ResolveLookups :
       /\ Len(parsed.routers) = 3
       /\ Len(Unresolved(parsed)) = 4
       /\ ~Found(Unresolved(parsed)[3], lookup)
       /\ ~Found(Unresolved(parsed)[4], lookup)
       /\ Unresolved(parsed)[3].addr = 0 /\ Unresolved(parsed)[4].addr = 0
       /\ Len(Resolved(parsed, lookup)) = 2
       /\ Resolved(parsed, lookup)[2] = Routers[2]

\* The calls of router_resolve a pass over the routerlist makes now.
ResolveCalls(lookup) ==
  IF Me # NULL THEN resolve_calls(<<Me>> \o Routers, 2, Me, lookup)
  ELSE resolve_calls(Routers, 1, Me, lookup)
\* The last call was a load that ended with router_resolve_routerlist.
JustResolved ==
  /\ last.op = "router_load_routerlist_from_string" /\ last.ret = 0
  /\ routerlist # NULL

(***************************************************************************)
(* C21: directly after router_resolve_routerlist a second pass, whatever   *)
(* the hostnames resolve to by then, leaves the routerlist as it is (the   *)
(* same records, in the same order, one copy of this router's descriptor)  *)
(* and calls router_resolve for no record.                                 *)
(***************************************************************************)
C21_ResolveIdempotent ==
  JustResolved =>
    \A lookup \in ResolveLookups :
      /\ router_resolve_routerlist(routerlist, Me, lookup) = routerlist
      /\ ResolveCalls(lookup) = 0

\* A router has loaded a string; its own descriptor is in front of two
\* resolved routers, and a second pass with no hostname found is about to
\* leave the three records as they are.
C21_Witness ==
  /\ JustResolved
  /\ options_ORPort
  /\ Len(Routers) = 3 /\ Routers[1] = Me
  /\ \E lookup \in ResolveLookups :
       /\ \A address \in Hostnames : lookup[address].ret # 0
       /\ router_resolve_routerlist(routerlist, Me, lookup).routers = Routers

(***************************************************************************)
(* SpecReplace: a client or a router without a routerlist; strings of one  *)
(* router are loaded, trusted or not, and resolved; descriptors are merged *)
(* into the routerlist.                                                    *)
(***************************************************************************)
NextReplace ==
  \/ \E parsed \in ReplaceParsed, trusted \in BOOLEAN, lookup \in ReplaceLookups :
       LoadFromString(parsed, trusted, lookup)
  \/ \E router \in MarkTrusted(ReplaceInputs) : AddToRouterlist(router)

SpecReplace == Init /\ [][NextReplace]_vars

\* The positions of the records with the nickname and the identity key of
\* `router` that were published before it.
Older(router) ==
  {i \in 1..Len(Routers) : /\ SameNickname(router, Routers[i])
                            /\ SameKey(router, Routers[i])
                            /\ router.published_on > Routers[i].published_on}
SameAddress(a, b) == strcasecmp(a.address, b.address) = 0

(***************************************************************************)
(* C22: a descriptor with the nickname and the identity key of a record of *)
(* the routerlist and a later published_on takes the place of that record: *)
(* the merge returns 0, the list keeps its length and its other records,   *)
(* and the record stored is the descriptor, trusted if the descriptor or   *)
(* the old record was, with the address of the old record exactly when the *)
(* hostnames are equal without regard to case.                             *)
(***************************************************************************)
C22_NewerReplacesInPlace ==
  routerlist # NULL =>
    \A router \in MarkTrusted(ReplaceInputs) :
      \A i \in Older(router) :
        LET res == router_add_to_routerlist(Routers, router)
            r == Routers[i]
        IN  /\ res.ret = 0
            /\ Len(res.routers) = Len(Routers)
            /\ \A j \in 1..Len(Routers) : j # i => res.routers[j] = Routers[j]
            /\ res.routers[i]
                 = [router EXCEPT
                      !.is_trusted_dir = router.is_trusted_dir \/ r.is_trusted_dir,
                      !.addr = IF SameAddress(r, router) THEN r.addr ELSE router.addr]
            /\ r.addr # 0 => (res.routers[i].addr = r.addr <=> SameAddress(r, router))

\* A descriptor has replaced a record; the record stored is resolved and
\* trusted and has another record behind it; a later descriptor that is not
\* trusted, with the hostname in the other case, is about to take its
\* address and its trust, and one with another hostname is about to take
\* its trust only.
C22_Witness ==
  /\ last.op = "router_add_to_routerlist" /\ last.log = "Replacing entry"
  /\ Len(Routers) >= 2
  /\ \E router \in ReplaceInputs, other \in ReplaceInputs :
       \E i \in Older(router) \cap Older(other) :
         /\ i < Len(Routers)
         /\ Routers[i].addr # 0 /\ Routers[i].is_trusted_dir
         /\ router.address # Routers[i].address
         /\ SameAddress(Routers[i], router)
         /\ router_add_to_routerlist(Routers, router).routers[i].addr
              = Routers[i].addr
         /\ router_add_to_routerlist(Routers, router).routers[i].is_trusted_dir
         /\ ~SameAddress(Routers[i], other)
         /\ router_add_to_routerlist(Routers, other).routers[i].addr = 0
         /\ router_add_to_routerlist(Routers, other).routers[i].is_trusted_dir

\* The known addresses asked about.
KnownAddrs == TargetAddrs \ {ZeroAddr}

(***************************************************************************)
(* C23: for every policy and every port, when                              *)
(* router_compare_addr_to_exit_policy answers "accepted" for the unknown   *)
(* address it answers "accepted" for every known address with that port,   *)
(* and when it answers "rejected" for the unknown address it answers       *)
(* "rejected" for every known address with that port.                      *)
(***************************************************************************)
C23_UnknownAddressSound ==
  \A port \in TargetPorts, addr \in KnownAddrs :
    /\ Classify(ZeroAddr, port) = ADDR_POLICY_ACCEPTED =>
         Classify(addr, port) = ADDR_POLICY_ACCEPTED
    /\ Classify(ZeroAddr, port) = ADDR_POLICY_REJECTED =>
         Classify(addr, port) = ADDR_POLICY_REJECTED

\* The unknown address has been rejected by a policy of two rules.  For one
\* port the policy rejects the unknown address and every known one; for
\* another it answers "unknown", accepts one known address and rejects
\* another.
C23_Witness ==
  /\ last.op = "router_compare_addr_to_exit_policy"
  /\ last.ret = ADDR_POLICY_REJECTED
  /\ Len(Policy) = 2
  /\ \E port \in TargetPorts :
       /\ Classify(ZeroAddr, port) = ADDR_POLICY_REJECTED
       /\ \A addr \in KnownAddrs : Classify(addr, port) = ADDR_POLICY_REJECTED
  /\ \E port \in TargetPorts :
       /\ Classify(ZeroAddr, port) = ADDR_POLICY_UNKNOWN
       /\ \E addr \in KnownAddrs : Classify(addr, port) = ADDR_POLICY_ACCEPTED
       /\ \E addr \in KnownAddrs : Classify(addr, port) = ADDR_POLICY_REJECTED

====
